---------------------------- MODULE Spec2Model ----------------------------
(* A model of mat64/qr.go: the QR type (Factorize) and its consumers       *)
(* RFromQR, QFromQR, SolveQR and SolveQRVec.                               *)
(*                                                                         *)
(* Matrices keep the layout of the code: a flat Data slice addressed as    *)
(* Data[i*Stride+j] (sequences here start at 1, so the index is shifted by *)
(* one).  float64 values are modelled by integers: the extractors only     *)
(* add and multiply, which is exact on the small integers used.  The       *)
(* lapack kernels are opaque: Geqrf's output is drawn from a family of     *)
(* factor contents, and what Trtrs and Ormqr write into the scratch matrix *)
(* is recorded as a tagged cell naming the kernel that wrote it.           *)
EXTENDS Integers, Sequences, FiniteSets, TLC

VARIABLES
    qr_qr,      \* qr.qr  : the factor matrix (Nil before the first Factorize)
    qr_tau,     \* qr.tau : the reflector scalars
    m,          \* the receiver *Dense (or *Vector) of the consumer calls
    pc,         \* position of the call in progress ("idle" between calls)
    call,       \* the current / most recent call: operation, inputs, outcome
    i,          \* QFromQR: loop index of the reflector loop
    h,          \* QFromQR: the r*r matrix h
    v,          \* QFromQR: the vector v
    qCopy,      \* QFromQR: workspace acquired from the pool
    x,          \* SolveQR: workspace acquired from the pool
    held,       \* pool buffers acquired by the call and not (yet) released
    iters,      \* history: reflector indices applied by the QFromQR call
    steps,      \* history: kernel steps run by the SolveQR call
    readStale,  \* history: a kernel read a scratch cell holding pool data
    mEntry,     \* history: the receiver after the sizing at the call's entry
    fac,        \* history: what the last successful Factorize left in qr
    sameCall    \* history: factor and scalars were written by the same call

vars == <<qr_qr, qr_tau, m, pc, call, i, h, v, qCopy, x, held,
          iters, steps, readStale, mEntry, fac, sameCall>>

(* ------------------------------ bounds -------------------------------- *)
\* largest row / column count of any matrix argument
MaxDim == 2
\* largest column count of a right-hand side B
MaxBCols == 2
\* the entry values the opaque factorization kernel is allowed to produce
Val == {0, 1}

Dims == 1..MaxDim

min(a, b) == IF a < b THEN a ELSE b
max(a, b) == IF a > b THEN a ELSE b

(* ------------------------------- cells -------------------------------- *)
\* a float64 with a known value
Num(n) == [tag |-> "num", val |-> n]
\* a float64 written by an opaque kernel, or left over in a pool buffer
Cell(t) == [tag |-> t, val |-> 0]

(* --------------------------- Dense matrices --------------------------- *)
Nil == [Rows |-> 0, Cols |-> 0, Stride |-> 0, Data |-> << >>,
        capRows |-> 0, capCols |-> 0]

\* &Dense{}
EmptyDense == Nil

\* a Dense of r*c cells, all holding cell
Filled(r, c, cell) ==
    [Rows |-> r, Cols |-> c, Stride |-> c,
     Data |-> [p \in 1..(r * c) |-> cell],
     capRows |-> r, capCols |-> c]

\* Data[i*Stride+j]
At(d, a, b) == d.Data[a * d.Stride + b + 1]

RowOf(d, p) == (p - 1) \div d.Stride
ColOf(d, p) == (p - 1) % d.Stride

\* m.reuseAs(r, c): resize to exactly r*c, keeping the storage (and what it
\* holds) when it is large enough and allocating zeroed storage otherwise
reuseAs(d, r, c) ==
    IF d.Rows = r /\ d.Cols = c THEN d
    ELSE IF Len(d.Data) >= r * c
         THEN [Rows |-> r, Cols |-> c, Stride |-> c,
               Data |-> SubSeq(d.Data, 1, r * c),
               capRows |-> r, capCols |-> c]
         ELSE Filled(r, c, Num(0))

\* m.Copy(a) for a Dense a: copies the overlap of the two shapes
CopyDense(d, a) ==
    [d EXCEPT !.Data = [p \in DOMAIN d.Data |->
        IF RowOf(d, p) < min(d.Rows, a.Rows) /\ ColOf(d, p) < min(d.Cols, a.Cols)
        THEN At(a, RowOf(d, p), ColOf(d, p))
        ELSE d.Data[p]]]

\* getWorkspace(r, c, clear): a pool buffer; not cleared, it holds whatever
\* its last user left in it
getWorkspace(r, c, clear) ==
    Filled(r, c, IF clear THEN Num(0) ELSE Cell("stale"))

(* -------------------------- triangular view --------------------------- *)
\* &TriDense{blas64.Triangular{N: c, Stride: .., Data: .., Upper, NonUnit}}
TriView(q) ==
    [N |-> q.Cols, Stride |-> q.Stride, Data |-> q.Data, Uplo |-> "Upper"]

\* t.At(i, j) of a TriDense
TriAt(t, a, b) ==
    IF (t.Uplo = "Upper" /\ a > b) \/ (t.Uplo = "Lower" /\ a < b)
    THEN 0
    ELSE t.Data[a * t.Stride + b + 1]

\* m.Copy(t) for a TriDense t (an N*N matrix): copies the overlap
CopyTri(d, t) ==
    [d EXCEPT !.Data = [p \in DOMAIN d.Data |->
        IF RowOf(d, p) < min(d.Rows, t.N) /\ ColOf(d, p) < min(d.Cols, t.N)
        THEN Num(TriAt(t, RowOf(d, p), ColOf(d, p)))
        ELSE d.Data[p]]]


(* ----------------------------- call record ---------------------------- *)
\* op: the operation; rows, cols: the shape of its matrix argument (a for
\* Factorize, b for the solvers); res: "running", "ok" (a call without a
\* result value returned), "nil" / "Condition(+Inf)" (the error returned by
\* a solver) or "ErrShape" (the call panicked); ok: what Trtrs reported
NoCall == [op |-> "none", rows |-> 0, cols |-> 0, trans |-> FALSE,
           res |-> "none", ok |-> "none"]

Started(op, r, c, trans) ==
    [op |-> op, rows |-> r, cols |-> c, trans |-> trans,
     res |-> "running", ok |-> "none"]

NoLocals ==
    /\ i' = 0
    /\ h' = << >>
    /\ v' = << >>
    /\ qCopy' = Nil
    /\ x' = Nil

NoHistory ==
    /\ iters' = << >>
    /\ steps' = << >>
    /\ readStale' = FALSE

(* ------------------------------ Factorize ----------------------------- *)
\* what lapack64.Geqrf may leave in an r*c matrix and in tau: R on and
\* above the diagonal (each diagonal entry dg[b], the entries above the
\* diagonal up), the reflector vectors below the diagonal (low), and one
\* scalar per reflector (ta).  Every entry is drawn from Val; the entries
\* above the diagonal are equal to one another and so are those below it,
\* which restricts only shapes with several entries on one side.
GeqrfOut(r, c) ==
    { [Data |-> [p \in 1..(r * c) |->
                    LET a == (p - 1) \div c
                        b == (p - 1) % c
                    IN  IF a < b THEN up
                        ELSE IF a > b THEN low
                        ELSE dg[b]],
       tau  |-> ta] :
      up \in Val, low \in Val, ta \in [1..min(r, c) -> Val],
      dg \in [0..(c - 1) -> Val] }

\* the shape test off by one: square matrices rejected too
FactorizePanicsSquare(am, an) == am <= an

\* if m < n { panic(ErrShape) }
FactorizePanics(am, an) == am < an

\* Factorize with qr.tau = make([]float64, k) moved above the shape test
FactorizeCallTauFirst(am, an) ==
    /\ pc = "idle"
    /\ IF FactorizePanics(am, an)
       THEN /\ call' = [Started("Factorize", am, an, FALSE) EXCEPT !.res = "ErrShape"]
            /\ qr_tau' = [j \in 1..min(am, an) |-> 0]
            /\ sameCall' = FALSE
            /\ UNCHANGED <<qr_qr, fac>>
       ELSE \E out \in GeqrfOut(am, an) :
            /\ qr_qr' = [Rows |-> am, Cols |-> an, Stride |-> an,
                         Data |-> out.Data, capRows |-> am, capCols |-> an]
            /\ qr_tau' = out.tau
            /\ fac' = [mat |-> qr_qr', tau |-> qr_tau']
            /\ sameCall' = TRUE
            /\ call' = [Started("Factorize", am, an, FALSE) EXCEPT !.res = "ok"]
    /\ held' = 0
    /\ NoLocals
    /\ NoHistory
    /\ UNCHANGED <<m, pc, mEntry>>

\* qr.Factorize(a) for an am*an matrix a
FactorizeCall(am, an) ==
    /\ pc = "idle"
    /\ IF FactorizePanics(am, an)
       THEN /\ call' = [Started("Factorize", am, an, FALSE) EXCEPT !.res = "ErrShape"]
            /\ UNCHANGED <<qr_qr, qr_tau, fac, sameCall>>
       ELSE \E out \in GeqrfOut(am, an) :
            /\ qr_qr' = [Rows |-> am, Cols |-> an, Stride |-> an,
                         Data |-> out.Data, capRows |-> am, capCols |-> an]
            /\ qr_tau' = out.tau
            /\ fac' = [mat |-> qr_qr', tau |-> qr_tau']
            /\ sameCall' = TRUE
            /\ call' = [Started("Factorize", am, an, FALSE) EXCEPT !.res = "ok"]
    /\ held' = 0
    /\ NoLocals
    /\ NoHistory
    /\ UNCHANGED <<m, pc, mEntry>>

Factorize == \E am \in Dims, an \in Dims : FactorizeCall(am, an)

(* --------------------------- the receiver ----------------------------- *)
\* between calls the caller takes another receiver: a new &Dense{}, or a
\* matrix that holds data already (NewDense(r, c, data))
NewReceiver ==
    /\ pc = "idle"
    /\ \/ m' = EmptyDense
       \/ \E r \in Dims, c \in Dims, d \in Val : m' = Filled(r, c, Num(d))
    /\ mEntry' = m'
    /\ call' = NoCall
    /\ NoHistory
    /\ UNCHANGED <<qr_qr, qr_tau, pc, i, h, v, qCopy, x, held, fac, sameCall>>

(* ------------------------------ RFromQR ------------------------------- *)
\* m.RFromQR(qr): the receiver after the call
RFromQRResult(d, q) == CopyTri(reuseAs(d, q.Rows, q.Cols), TriView(q))

\* RFromQR that makes the factor itself upper triangular (it clears the
\* entries below the diagonal through the view's Data) before copying
RFromQRInPlace ==
    /\ pc = "idle"
    /\ qr_qr # Nil
    /\ qr_qr' = [qr_qr EXCEPT !.Data = [p \in DOMAIN qr_qr.Data |->
                    IF RowOf(qr_qr, p) > ColOf(qr_qr, p) THEN 0
                    ELSE qr_qr.Data[p]]]
    /\ m' = RFromQRResult(m, qr_qr)
    /\ mEntry' = reuseAs(m, qr_qr.Rows, qr_qr.Cols)
    /\ call' = [Started("RFromQR", 0, 0, FALSE) EXCEPT !.res = "ok"]
    /\ held' = 0
    /\ NoLocals
    /\ NoHistory
    /\ UNCHANGED <<qr_tau, pc, fac, sameCall>>

RFromQR ==
    /\ pc = "idle"
    /\ qr_qr # Nil
    /\ m' = RFromQRResult(m, qr_qr)
    /\ mEntry' = reuseAs(m, qr_qr.Rows, qr_qr.Cols)
    /\ call' = [Started("RFromQR", 0, 0, FALSE) EXCEPT !.res = "ok"]
    /\ held' = 0
    /\ NoLocals
    /\ NoHistory
    /\ UNCHANGED <<qr_qr, qr_tau, pc, fac, sameCall>>

(* ------------------------------ QFromQR ------------------------------- *)
\* lines 73-81: Set Q = I, by explicit assignment of every entry
SetIdentity(d) ==
    [d EXCEPT !.Data = [p \in DOMAIN d.Data |->
        IF RowOf(d, p) < d.Rows /\ ColOf(d, p) < d.Rows
        THEN Num(IF RowOf(d, p) = ColOf(d, p) THEN 1 ELSE 0)
        ELSE d.Data[p]]]

\* lines 98-103: Set h = I (h is r*r with stride r)
IdentityH(r) ==
    [p \in 1..(r * r) |-> IF (p - 1) \div r = (p - 1) % r THEN 1 ELSE 0]

\* lines 106-112: the elementary reflector idx of the factor q
ReflectorV(q, idx) ==
    [j \in 1..q.Rows |->
        IF j - 1 < idx THEN 0
        ELSE IF j - 1 = idx THEN 1
        ELSE q.Data[(j - 1) * q.Stride + idx + 1]]

\* blas64.Ger(alpha, x, y, a): a += alpha * x * y^T  (a is r*r, stride r)
Ger(alpha, xv, yv, a, r) ==
    [p \in 1..(r * r) |->
        a[p] + alpha * xv[((p - 1) \div r) + 1] * yv[((p - 1) % r) + 1]]

\* blas64.Gemm(NoTrans, NoTrans, 1, a, b, 0, c): c = a * b, with a and c
\* Dense and b the r*r matrix h; beta = 0, so c is not read
Gemm(a, b, c, r) ==
    [c EXCEPT !.Data = [p \in DOMAIN c.Data |->
        IF RowOf(c, p) < r /\ ColOf(c, p) < r
        THEN LET s[l \in 0..r] ==
                    IF l = 0 THEN 0
                    ELSE s[l - 1] + At(a, RowOf(c, p), l - 1).val
                                    * b[(l - 1) * r + ColOf(c, p) + 1]
             IN  Num(s[r])
        ELSE c.Data[p]]]

\* c = b * a: Gemm with its two matrix arguments exchanged
GemmLeft(a, b, c, r) ==
    [c EXCEPT !.Data = [p \in DOMAIN c.Data |->
        IF RowOf(c, p) < r /\ ColOf(c, p) < r
        THEN LET s[l \in 0..r] ==
                    IF l = 0 THEN 0
                    ELSE s[l - 1] + b[RowOf(c, p) * r + l]
                                    * At(a, l - 1, ColOf(c, p)).val
             IN  Num(s[r])
        ELSE c.Data[p]]]

\* one pass of the loop that multiplies by h on the left: Q <- H * Q
QStepLeft(d, qc, q, tau, idx) ==
    LET vv == ReflectorV(q, idx)
        hh == Ger(-tau[idx + 1], vv, vv, IdentityH(q.Rows), q.Rows)
        cc == CopyDense(qc, d)
    IN  [h |-> hh, v |-> vv, qCopy |-> cc, m |-> GemmLeft(cc, hh, d, q.Rows)]

\* lines 115-119, one pass of the loop for reflector idx: the new h, qCopy
\* and receiver
QStep(d, qc, q, tau, idx) ==
    LET vv == ReflectorV(q, idx)
        hh == Ger(-tau[idx + 1], vv, vv, IdentityH(q.Rows), q.Rows)
        cc == CopyDense(qc, d)
    IN  [h |-> hh, v |-> vv, qCopy |-> cc, m |-> Gemm(cc, hh, d, q.Rows)]

\* lines 69-95: sizing, Q = I, the scratch objects
QFromQRStart ==
    /\ pc = "idle"
    /\ qr_qr # Nil
    /\ m' = SetIdentity(reuseAs(m, qr_qr.Rows, qr_qr.Rows))
    /\ mEntry' = m'
    /\ h' = [p \in 1..(qr_qr.Rows * qr_qr.Rows) |-> 0]
    /\ qCopy' = getWorkspace(qr_qr.Rows, qr_qr.Rows, FALSE)
    /\ held' = 1
    /\ v' = [j \in 1..qr_qr.Rows |-> 0]
    /\ i' = 0
    /\ pc' = "QLoop"
    /\ call' = Started("QFromQR", 0, 0, FALSE)
    /\ x' = Nil
    /\ NoHistory
    /\ UNCHANGED <<qr_qr, qr_tau, fac, sameCall>>

\* lines 96-120: one iteration, i < k
QFromQRIter ==
    /\ pc = "QLoop"
    /\ i < min(qr_qr.Rows, qr_qr.Cols)
    /\ LET s == QStep(m, qCopy, qr_qr, qr_tau, i)
       IN  /\ h' = s.h
           /\ v' = s.v
           /\ qCopy' = s.qCopy
           /\ m' = s.m
    /\ mEntry' = m'
    /\ iters' = Append(iters, i)
    /\ i' = i + 1
    /\ UNCHANGED <<qr_qr, qr_tau, pc, call, x, held, steps, readStale,
                   fac, sameCall>>

\* line 121: the loop is over and the call returns; qCopy is not handed
\* back to the pool
QFromQRReturn ==
    /\ pc = "QLoop"
    /\ ~(i < min(qr_qr.Rows, qr_qr.Cols))
    /\ pc' = "idle"
    /\ call' = [call EXCEPT !.res = "ok"]
    /\ NoLocals
    /\ UNCHANGED <<qr_qr, qr_tau, m, mEntry, held, iters, steps, readStale,
                   fac, sameCall>>

(* ------------------------------ SolveQR ------------------------------- *)
\* the shape test without the transposed case
SolvePanicsRows(q, trans, br) == q.Rows # br

\* lines 142-152: the shape test of SolveQR
SolvePanics(q, trans, br) == IF trans THEN q.Cols # br ELSE q.Rows # br

\* lines 146 / 151: the shape the receiver is given
ResultRows(q, trans) == IF trans THEN q.Rows ELSE q.Cols

\* the transposed branch without the zeroing of rows c..r-1
SolvePlanNoZero(trans) ==
    IF trans THEN <<"Trtrs", "Ormqr", "Copy">>
             ELSE <<"Ormqr", "Trtrs", "Copy">>

\* lines 164-192: the steps after x.Copy(b), in program order
SolvePlan(trans) ==
    IF trans THEN <<"Trtrs", "Zero", "Ormqr", "Copy">>
             ELSE <<"Ormqr", "Trtrs", "Copy">>

\* the step after step s of the plan
NextStep(trans, s) ==
    LET plan == SolvePlan(trans)
        k == CHOOSE n \in 1..Len(plan) : plan[n] = s
    IN  plan[k + 1]

\* the transpose flag handed to Trtrs (lines 165, 184) and Ormqr (175, 180)
TrtrsFlag(trans) == IF trans THEN "Trans" ELSE "NoTrans"
OrmqrFlag(trans) == IF trans THEN "NoTrans" ELSE "Trans"

\* lapack64.Trtrs reports failure when the triangular matrix has a zero on
\* its diagonal, and then leaves b as it was
TrtrsOk(t) == \A j \in 0..(t.N - 1) : TriAt(t, j, j) # 0

\* lapack64.Trtrs(flag, t, b): rows 0..N-1 of b are read and overwritten
Trtrs(t, b) ==
    [b EXCEPT !.Data = [p \in DOMAIN b.Data |->
        IF RowOf(b, p) < t.N THEN Cell("trtrs") ELSE b.Data[p]]]

\* lapack64.Ormqr(Left, flag, a, tau, c): every row of c is read and
\* overwritten
Ormqr(c) == [c EXCEPT !.Data = [p \in DOMAIN c.Data |-> Cell("ormqr")]]

\* lines 169-173: rows c..r-1 of the scratch are set to zero
ZeroExtend(b, q) ==
    [b EXCEPT !.Data = [p \in DOMAIN b.Data |->
        IF RowOf(b, p) >= q.Cols /\ RowOf(b, p) < q.Rows THEN Num(0)
        ELSE b.Data[p]]]

\* a cell among the first n rows of b still holds pool data
StaleIn(b, n) ==
    \E p \in DOMAIN b.Data : RowOf(b, p) < n /\ b.Data[p].tag = "stale"

\* lines 135-156: shape test, sizing of the receiver, scratch copy of b.
\* d is the receiver as SolveQR finds it, b is br*bc.
SolveBegin(op, d, trans, br, bc) ==
    /\ pc = "idle"
    /\ qr_qr # Nil
    /\ IF SolvePanics(qr_qr, trans, br)
       THEN /\ call' = [Started(op, br, bc, trans) EXCEPT !.res = "ErrShape"]
            /\ m' = d
            /\ x' = Nil
            /\ held' = 0
            /\ pc' = "idle"
       ELSE /\ call' = Started(op, br, bc, trans)
            /\ m' = reuseAs(d, ResultRows(qr_qr, trans), bc)
            /\ x' = CopyDense(getWorkspace(max(qr_qr.Rows, qr_qr.Cols), bc, FALSE),
                              Filled(br, bc, Cell("b")))
            /\ held' = 1
            /\ pc' = SolvePlan(trans)[1]
    /\ mEntry' = m'
    /\ i' = 0
    /\ h' = << >>
    /\ v' = << >>
    /\ qCopy' = Nil
    /\ NoHistory
    /\ UNCHANGED <<qr_qr, qr_tau, fac, sameCall>>

\* m.SolveQR(qr, trans, b)
SolveQR ==
    \E trans \in BOOLEAN, br \in Dims, bc \in 1..MaxBCols :
        SolveBegin("SolveQR", m, trans, br, bc)

\* lines 195-207: v.SolveQRVec(qr, trans, b): the receiver vector is sized
\* first, then both vectors are recast as one-column Dense (vecAsDense,
\* same Data) and SolveQR is called
SolveQRVec ==
    \E trans \in BOOLEAN, bn \in Dims :
        SolveBegin("SolveQRVec", reuseAs(m, ResultRows(qr_qr, trans), 1),
                   trans, bn, 1)

\* the triangular solve with the kernel's report dropped
SolveTrtrsUnchecked ==
    /\ pc = "Trtrs"
    /\ steps' = Append(steps, <<"Trtrs", TrtrsFlag(call.trans)>>)
    /\ readStale' = (readStale \/ StaleIn(x, qr_qr.Cols))
    /\ x' = Trtrs(TriView(qr_qr), x)
    /\ call' = [call EXCEPT !.ok = IF TrtrsOk(TriView(qr_qr)) THEN "true" ELSE "false"]
    /\ pc' = NextStep(call.trans, "Trtrs")
    /\ UNCHANGED <<qr_qr, qr_tau, m, i, h, v, qCopy, held, iters, mEntry,
                   fac, sameCall>>

\* lines 165-168 and 184-187: the triangular solve; on failure the call
\* returns Condition(+Inf) at once, x is not handed back to the pool
SolveTrtrs ==
    /\ pc = "Trtrs"
    /\ steps' = Append(steps, <<"Trtrs", TrtrsFlag(call.trans)>>)
    /\ readStale' = (readStale \/ StaleIn(x, qr_qr.Cols))
    /\ IF TrtrsOk(TriView(qr_qr))
       THEN /\ x' = Trtrs(TriView(qr_qr), x)
            /\ call' = [call EXCEPT !.ok = "true"]
            /\ pc' = NextStep(call.trans, "Trtrs")
       ELSE /\ x' = Nil
            /\ call' = [call EXCEPT !.ok = "false", !.res = "Condition(+Inf)"]
            /\ pc' = "idle"
    /\ UNCHANGED <<qr_qr, qr_tau, m, i, h, v, qCopy, held, iters, mEntry,
                   fac, sameCall>>

\* lines 169-173
SolveZero ==
    /\ pc = "Zero"
    /\ steps' = Append(steps, <<"Zero", "">>)
    /\ x' = ZeroExtend(x, qr_qr)
    /\ pc' = NextStep(call.trans, "Zero")
    /\ UNCHANGED <<qr_qr, qr_tau, m, call, i, h, v, qCopy, held, iters,
                   readStale, mEntry, fac, sameCall>>

\* lines 174-177 and 179-182: workspace query, then the kernel
SolveOrmqr ==
    /\ pc = "Ormqr"
    /\ steps' = Append(steps, <<"Ormqr", OrmqrFlag(call.trans)>>)
    /\ readStale' = (readStale \/ StaleIn(x, x.Rows))
    /\ x' = Ormqr(x)
    /\ pc' = NextStep(call.trans, "Ormqr")
    /\ UNCHANGED <<qr_qr, qr_tau, m, call, i, h, v, qCopy, held, iters,
                   mEntry, fac, sameCall>>

\* lines 189-192: m.Copy(x); putWorkspace(x); return nil
SolveCopy ==
    /\ pc = "Copy"
    /\ steps' = Append(steps, <<"Copy", "">>)
    /\ m' = CopyDense(m, x)
    /\ mEntry' = m'
    /\ held' = held - 1
    /\ x' = Nil
    /\ call' = [call EXCEPT !.res = "nil"]
    /\ pc' = "idle"
    /\ UNCHANGED <<qr_qr, qr_tau, i, h, v, qCopy, iters, readStale,
                   fac, sameCall>>

(* --------------------------- specifications --------------------------- *)
\* after construction: var qr QR; var m Dense
Init ==
    /\ qr_qr = Nil
    /\ qr_tau = << >>
    /\ m = EmptyDense
    /\ pc = "idle"
    /\ call = NoCall
    /\ i = 0
    /\ h = << >>
    /\ v = << >>
    /\ qCopy = Nil
    /\ x = Nil
    /\ held = 0
    /\ iters = << >>
    /\ steps = << >>
    /\ readStale = FALSE
    /\ mEntry = EmptyDense
    /\ fac = [mat |-> Nil, tau |-> << >>]
    /\ sameCall = TRUE

Consume ==
    \/ NewReceiver
    \/ RFromQR
    \/ QFromQRStart
    \/ QFromQRIter
    \/ QFromQRReturn
    \/ SolveQR
    \/ SolveQRVec
    \/ SolveTrtrs
    \/ SolveZero
    \/ SolveOrmqr
    \/ SolveCopy

Next ==
    \/ Factorize
    \/ Consume

\* the whole program: any interleaving of calls, one call at a time
Spec == Init /\ [][Next]_vars

\* sequences of Factorize calls on one QR object
SpecFactorize == Init /\ [][Factorize]_vars

\* a QR object right after a successful Factorize of an am*an matrix
Factorized ==
    \E am \in Dims, an \in Dims :
        /\ ~FactorizePanics(am, an)
        /\ \E out \in GeqrfOut(am, an) :
            /\ qr_qr = [Rows |-> am, Cols |-> an, Stride |-> an,
                        Data |-> out.Data, capRows |-> am, capCols |-> an]
            /\ qr_tau = out.tau
            /\ call = [Started("Factorize", am, an, FALSE) EXCEPT !.res = "ok"]

InitConsume ==
    /\ Factorized
    /\ fac = [mat |-> qr_qr, tau |-> qr_tau]
    /\ sameCall = TRUE
    /\ m = EmptyDense
    /\ pc = "idle"
    /\ i = 0
    /\ h = << >>
    /\ v = << >>
    /\ qCopy = Nil
    /\ x = Nil
    /\ held = 0
    /\ iters = << >>
    /\ steps = << >>
    /\ readStale = FALSE
    /\ mEntry = EmptyDense

\* sequences of consumer calls on one factorized QR object
SpecConsume == InitConsume /\ [][Consume]_vars

(* ======================= properties: Factorize ======================== *)
Solvers == {"SolveQR", "SolveQRVec"}

\* C1: Factorize of an m*n matrix panics with ErrShape exactly when m < n;
\* with m >= n it completes and reports nothing, whatever the factor holds.
C1_FactorizeShape ==
    call.op = "Factorize" =>
        call.res = (IF call.rows < call.cols THEN "ErrShape" ELSE "ok")

\* a Factorize call that panicked on a wide input
C1_Witness ==
    call.op = "Factorize" /\ call.rows < call.cols /\ call.res = "ErrShape"

\* C4 (as claimed): a wide matrix (m < n) can be factorized, so that
\* SolveQR can be applied to its representation: Factorize of an m*n matrix
\* with m < n leaves a representation of that shape.
C4_WideFactorizable ==
    (call.op = "Factorize" /\ call.rows < call.cols) =>
        /\ call.res = "ok"
        /\ qr_qr.Rows = call.rows
        /\ qr_qr.Cols = call.cols

\* C8, the state part: factor and scalars come from the same Factorize
\* call, the factor has m >= n and there are min(m, n) scalars.
C8_Consistent ==
    /\ sameCall
    /\ qr_qr = Nil => qr_tau = << >>
    /\ qr_qr # Nil =>
        /\ qr_qr.Rows >= qr_qr.Cols
        /\ Len(qr_tau) = min(qr_qr.Rows, qr_qr.Cols)
        /\ Len(qr_qr.Data) = qr_qr.Rows * qr_qr.Cols

\* C8: after any sequence of Factorize calls the representation is
\* consistent (C8_Consistent), and a call that panics with ErrShape leaves
\* the factor and the scalars as they were.
C8_Representation ==
    /\ []C8_Consistent
    /\ [][(call'.op = "Factorize" /\ call'.res = "ErrShape") =>
            (qr_qr' = qr_qr /\ qr_tau' = qr_tau)]_vars

\* a failed Factorize call on an object that holds an earlier factorization
C8_Witness ==
    /\ call.op = "Factorize"
    /\ call.res = "ErrShape"
    /\ qr_qr # Nil
    /\ qr_qr.Rows > qr_qr.Cols

(* ======================== properties: SolveQR ========================= *)
\* C2: SolveQR (and SolveQRVec through it) panics with ErrShape exactly
\* when b's row count differs from n (trans) or from m (not trans).
C2_SolveShape ==
    call.op \in Solvers =>
        ((call.res = "ErrShape") <=>
            (call.rows # (IF call.trans THEN qr_qr.Cols ELSE qr_qr.Rows)))

\* a transposed solve that panicked although b has as many rows as A
C2_Witness ==
    /\ call.op = "SolveQR"
    /\ call.trans
    /\ call.rows = qr_qr.Rows
    /\ call.res = "ErrShape"

\* C3: a solver call that did not panic returns Condition(+Inf) when Trtrs
\* reported failure and nil when it reported success, and nothing else.
C3_SolveResult ==
    (call.op \in Solvers /\ pc = "idle" /\ call.res # "ErrShape") =>
        /\ call.ok \in {"true", "false"}
        /\ call.res = (IF call.ok = "false" THEN "Condition(+Inf)" ELSE "nil")

\* a transposed solve on a singular factor returned the condition error
C3_Witness ==
    /\ call.op = "SolveQR"
    /\ call.trans
    /\ ~TrtrsOk(TriView(qr_qr))
    /\ call.res = "Condition(+Inf)"

\* C5 (as claimed): between calls no buffer acquired from the pool is
\* still held by the call that acquired it.
C5_AllReleased == pc = "idle" => held = 0

\* what the claim says the SolveQR call runs, in order
ExpectedSteps(trans) ==
    IF trans
    THEN << <<"Trtrs", "Trans">>, <<"Zero", "">>, <<"Ormqr", "NoTrans">>,
            <<"Copy", "">> >>
    ELSE << <<"Ormqr", "Trans">>, <<"Trtrs", "NoTrans">>, <<"Copy", "">> >>

\* C10: the steps of a solver call run in the claimed order (Ormqr with Q
\* transposed before Trtrs when not trans; Trtrs with R transposed, the
\* zeroing of rows n..m-1, then Ormqr when trans); no kernel reads a
\* scratch cell that still holds pool data; the receiver's elements are
\* written by the final copy only, and not at all when the call returns
\* the condition error.
C10_StepOrder ==
    (call.op \in Solvers /\ call.res # "ErrShape") =>
        /\ Len(steps) <= Len(ExpectedSteps(call.trans))
        /\ steps = SubSeq(ExpectedSteps(call.trans), 1, Len(steps))
        /\ ~readStale
        /\ call.res = "nil" => steps = ExpectedSteps(call.trans)
        /\ call.res # "nil" => (m = mEntry /\ \A k \in DOMAIN steps : steps[k][1] # "Copy")

\* a transposed solve on a tall factor ran to the end: the scratch had
\* rows n..m-1 to zero before Ormqr read them
C10_Witness ==
    /\ call.op = "SolveQR"
    /\ call.trans
    /\ qr_qr.Rows > qr_qr.Cols
    /\ call.res = "nil"
    /\ \E p \in DOMAIN m.Data : m.Data[p].tag = "ormqr"

(* ====================== properties: extractors ======================== *)
\* C6: the consumers leave the representation as Factorize left it: the
\* factor matrix and the scalars never change during or after a call of
\* RFromQR, QFromQR, SolveQR or SolveQRVec.
C6_ReadOnly == qr_qr = fac.mat /\ qr_tau = fac.tau

\* RFromQR has copied through the view of a factor that holds reflector
\* entries below its diagonal
C6_Witness ==
    /\ call.op = "RFromQR"
    /\ call.res = "ok"
    /\ qr_qr.Rows > 1
    /\ At(qr_qr, 1, 0) # 0
    /\ At(m, 1, 0) = Num(0)

\* m.QFromQR(qr) run to its end on the receiver d
RECURSIVE QFromQRLoop(_, _, _, _, _)
QFromQRLoop(d, qc, q, tau, idx) ==
    IF idx < min(q.Rows, q.Cols)
    THEN LET s == QStep(d, qc, q, tau, idx)
         IN  QFromQRLoop(s.m, s.qCopy, q, tau, idx + 1)
    ELSE d

QFromQRResult(d, q, tau) ==
    QFromQRLoop(SetIdentity(reuseAs(d, q.Rows, q.Rows)),
                getWorkspace(q.Rows, q.Rows, FALSE), q, tau, 0)

SameElements(a, b) ==
    a.Rows = b.Rows /\ a.Cols = b.Cols /\ a.Data = b.Data

\* the QFromQR half of storage reuse idempotence: whatever the receiver
\* held, QFromQR leaves in it what it leaves in a new receiver
QReuseIdempotent ==
    (call.op = "QFromQR" /\ call.res = "ok") =>
        SameElements(m, QFromQRResult(EmptyDense, qr_qr, qr_tau))

\* the RFromQR half: the same for RFromQR, and every entry below the
\* diagonal is zero
RReuseIdempotent ==
    call.op = "RFromQR" =>
        /\ SameElements(m, RFromQRResult(EmptyDense, qr_qr))
        /\ \A a \in 0..(m.Rows - 1), b \in 0..(m.Cols - 1) :
                a > b => At(m, a, b) = Num(0)

\* C7 (as claimed): RFromQR and QFromQR into a receiver that reuses its
\* storage leave exactly what they leave in a new receiver, and R is zero
\* below the diagonal, rows n..m-1 included.
C7_ReuseIdempotent == RReuseIdempotent /\ QReuseIdempotent

\* the reflector vector j of the factor q, entry a
ReflectorEntry(q, j, a) ==
    IF a < j THEN 0 ELSE IF a = j THEN 1 ELSE q.Data[a * q.Stride + j + 1]

\* H_j = I - tau_j * v_j * v_j^T as an r*r matrix
HMat(q, tau, j) ==
    [a \in 0..(q.Rows - 1), b \in 0..(q.Rows - 1) |->
        (IF a = b THEN 1 ELSE 0)
        - tau[j + 1] * ReflectorEntry(q, j, a) * ReflectorEntry(q, j, b)]

\* the product of two r*r matrices
MatMul(A, B, r) ==
    [a \in 0..(r - 1), b \in 0..(r - 1) |->
        LET s[l \in 0..r] ==
                IF l = 0 THEN 0 ELSE s[l - 1] + A[a, l - 1] * B[l - 1, b]
        IN  s[r]]

\* I * H_0 * H_1 * ... * H_(n-1)
RECURSIVE HProduct(_, _, _)
HProduct(q, tau, n) ==
    IF n = 0
    THEN [a \in 0..(q.Rows - 1), b \in 0..(q.Rows - 1) |-> IF a = b THEN 1 ELSE 0]
    ELSE MatMul(HProduct(q, tau, n - 1), HMat(q, tau, n - 1), q.Rows)

\* the receiver holds the r*r matrix P
Holds(d, P, r) ==
    /\ d.Rows = r
    /\ d.Cols = r
    /\ \A a \in 0..(r - 1), b \in 0..(r - 1) : At(d, a, b) = Num(P[a, b])

\* C9: QFromQR starts from the identity and applies the reflectors
\* 0, 1, ..., k-1 in this order, one per pass, each on the right: after j
\* passes the receiver holds I*H_0*...*H_(j-1), and the call returns after
\* exactly k = min(m, n) passes.
C9_Accumulation ==
    call.op = "QFromQR" =>
        /\ iters = [j \in 1..Len(iters) |-> j - 1]
        /\ Len(iters) <= min(qr_qr.Rows, qr_qr.Cols)
        /\ Holds(m, HProduct(qr_qr, qr_tau, Len(iters)), qr_qr.Rows)
        /\ call.res = "ok" => Len(iters) = min(qr_qr.Rows, qr_qr.Cols)
        /\ call.res # "ok" => (pc = "QLoop" /\ i = Len(iters))

\* QFromQR returned after two passes whose reflectors do not commute
C9_Witness ==
    /\ call.op = "QFromQR"
    /\ call.res = "ok"
    /\ Len(iters) = 2
    /\ MatMul(HMat(qr_qr, qr_tau, 0), HMat(qr_qr, qr_tau, 1), qr_qr.Rows)
         # MatMul(HMat(qr_qr, qr_tau, 1), HMat(qr_qr, qr_tau, 0), qr_qr.Rows)

=============================================================================
